---------------------------- MODULE Spec2Model ----------------------------
(***************************************************************************)
(* State-machine model of src/frontend/app.js (Voice AI Chat client).      *)
(*                                                                         *)
(* One action is one event-loop task of the page: a DOM event handler, a   *)
(* socket callback, a media callback, a requestAnimationFrame callback,    *)
(* together with the promise continuations (microtasks) it releases.       *)
(* Browser objects (WebSocket, HTMLAudioElement, MediaRecorder,            *)
(* getUserMedia, FileReader) are the environment: their callbacks are      *)
(* actions whose guards state when the platform can deliver them.          *)
(*                                                                         *)
(* Not modelled: DOM text/badges other than volumeStatus and               *)
(* recordBtn.disabled, logging, state.audio.currentIndex (written only),   *)
(* state.processingStartTime and state.recording.startTime (display only). *)
(* state.vad.audioChunks and state.recording.chunks are empty between      *)
(* tasks (every handler that fills them also drains them), so they are     *)
(* local values of the recorder-stop actions.                              *)
(***************************************************************************)
EXTENDS Integers, Sequences, FiniteSets

(***************************************************************************)
(* Bounds of the model.                                                    *)
(***************************************************************************)
MaxChunks == 3
MaxSockets == 2
MaxRuns == 2
MaxTicks == 3
MaxPending == 1
MaxLoops == 2
MaxUnknown == 1
MaxStarts == 2

(***************************************************************************)
(* CONFIG.VAD                                                              *)
(***************************************************************************)
volumeThreshold == 15
silenceTimeout == 1000
minSpeechDuration == 300
minAudioSize == 1000

\* Time advances in steps of half the silence timeout.
TickMs == silenceTimeout \div 2

\* volumePercent values fed to a sample: at and just above the threshold.
Volumes == {volumeThreshold, volumeThreshold + 1}

\* Sizes in bytes of a captured blob: empty, just below and at the minimum.
BlobSizes == {0, minAudioSize - 1, minAudioSize}

\* The index field of a tts_chunk message.
Indexes == {0, 1}

VARIABLES
    now,               \* Date.now(), in ms
    \* ---- WebSocket
    websocket,         \* state.websocket: 0 (null) or a socket id
    sockets,           \* every WebSocket created so far, by id
    \* ---- Pipeline
    pipelineResolve,   \* state.pipelineResolve: 0 (null) or the run holding it
    runs,              \* every Pipeline.run call so far, by id
    \* ---- manual recording
    recMediaRecorder,  \* state.recording.mediaRecorder: "null", "inactive", "recording"
    isActive,          \* state.recording.isActive
    recInitPending,    \* Recording.start calls awaiting getUserMedia in init()
    recStopPending,    \* queued dataavailable+stop tasks of the manual recorder
    recordBtnDisabled, \* elements.recordBtn.disabled
    \* ---- VAD
    isEnabled,         \* state.vad.isEnabled
    isProcessing,      \* state.vad.isProcessing
    isSpeaking,        \* state.vad.isSpeaking
    silenceStart,      \* state.vad.silenceStart: 0 (null) or a timestamp
    speechStart,       \* state.vad.speechStart: 0 (null) or a timestamp
    stream,            \* state.vad.stream is set
    audioContext,      \* state.vad.audioContext is set
    analyser,          \* state.vad.analyser is set
    vadMediaRecorder,  \* state.vad.mediaRecorder: "null", "inactive", "recording"
    animationFrame,    \* state.vad.animationFrame is non-null
    rafPending,        \* scheduled monitorVolume callbacks not yet run
    rafLatest,         \* the callback animationFrame names is still scheduled
    startPending,      \* VAD.start calls awaiting getUserMedia
    vadStopPending,    \* queued dataavailable+stop tasks of the hands-free recorder
    volumeStatus,      \* elements.volumeStatus.textContent
    \* ---- audio queue and the audio element
    queue,             \* state.audio.queue
    isPlaying,         \* state.audio.isPlaying
    playerChunk,       \* chunk the audio element is outputting, 0 if none
    pendingPlay,       \* chunks whose play() promise is not settled
    urls,              \* chunks whose object URL is created and not revoked
    \* ---- history
    nChunks,           \* chunks enqueued so far (a chunk's id is its ordinal)
    played,            \* chunks handed to audioPlayer.play(), in order
    dropped,           \* chunks discarded from the queue by reset()
    failed,            \* chunks whose play() promise was rejected
    loudSince,         \* time of the first sample of the current loud run, 0 if none
    quietRun,          \* the last classified sample was a quiet one
    quietMs,           \* time the current quiet run has lasted, not counting
                       \* time that passed while sampling was suspended
    nUnknown           \* inbound messages of no known type dispatched so far

\* What only the clock and the dispatch of an unmatched message write.
timeVars == <<now, nUnknown>>
wsVars == <<websocket, sockets>>
pipeVars == <<pipelineResolve, runs>>
recVars == <<recMediaRecorder, isActive, recInitPending, recStopPending>>
vadFlags == <<isEnabled, isProcessing>>
vadSpeech == <<isSpeaking, silenceStart, speechStart>>
vadRes == <<stream, audioContext, analyser>>
vadLoop == <<animationFrame, rafPending, rafLatest>>
vadRec == <<vadMediaRecorder, vadStopPending>>
audioVars == <<queue, isPlaying, playerChunk, pendingPlay, urls>>
audioHist == <<nChunks, played, dropped, failed>>
vadHist == <<loudSince, quietRun, quietMs>>

vars == <<now, websocket, sockets, pipelineResolve, runs,
          recMediaRecorder, isActive, recInitPending, recStopPending,
          recordBtnDisabled, isEnabled, isProcessing, isSpeaking,
          silenceStart, speechStart, stream, audioContext, analyser,
          vadMediaRecorder, animationFrame, rafPending, rafLatest,
          startPending, vadStopPending, volumeStatus,
          queue, isPlaying, playerChunk, pendingPlay, urls,
          nChunks, played, dropped, failed, loudSince, quietRun, quietMs,
          nUnknown>>

Range(s) == {s[i] : i \in 1..Len(s)}


(***************************************************************************)
(* 5. AUDIO QUEUE.  The operators work on a record a of the queue, the     *)
(* playing flag, the audio element and the status text, and return the     *)
(* record after the call.                                                  *)
(***************************************************************************)
AudioRec == [queue |-> queue, isPlaying |-> isPlaying,
             playerChunk |-> playerChunk, pendingPlay |-> pendingPlay,
             urls |-> urls, played |-> played,
             volumeStatus |-> volumeStatus]

\* audioPlayer.src = next.url; audioPlayer.play(): the element outputs the
\* chunk (whatever it was outputting is replaced) and the promise is pending.
Play(a, id) ==
    [a EXCEPT !.playerChunk = id,
              !.pendingPlay = @ \cup {id},
              !.played = Append(@, id)]

\* playNext without the shift: the head of the queue is played again.
playNext_NoShift(a) ==
    IF Len(a.queue) = 0
    THEN [a EXCEPT !.isPlaying = FALSE]
    ELSE Play([a EXCEPT !.isPlaying = TRUE], Head(a.queue).id)

\* playNext taking the chunk with the lowest index instead of the oldest.
playNext_ByIndex(a) ==
    IF Len(a.queue) = 0
    THEN [a EXCEPT !.isPlaying = FALSE,
                   !.volumeStatus = IF isEnabled /\ ~isProcessing
                                    THEN "Listening..." ELSE @]
    ELSE LET k == CHOOSE i \in 1..Len(a.queue) :
                      \A j \in 1..Len(a.queue) :
                          \/ a.queue[i].index < a.queue[j].index
                          \/ a.queue[i].index = a.queue[j].index /\ i <= j
             rest == [i \in 1..(Len(a.queue) - 1) |->
                          IF i < k THEN a.queue[i] ELSE a.queue[i + 1]]
         IN  Play([a EXCEPT !.isPlaying = TRUE, !.queue = rest], a.queue[k].id)

\* AudioQueue.playNext
playNext(a) ==
    IF Len(a.queue) = 0
    THEN [a EXCEPT !.isPlaying = FALSE,
                   !.volumeStatus = IF isEnabled /\ ~isProcessing
                                    THEN "Listening..." ELSE @]
    ELSE LET next == Head(a.queue)
         IN  Play([a EXCEPT !.isPlaying = TRUE, !.queue = Tail(@)], next.id)

\* AudioQueue.add: URL.createObjectURL, push, and playNext if not playing.
\* No code path calls URL.revokeObjectURL.
add(a, id, index) ==
    LET pushed == [a EXCEPT !.urls = @ \cup {id},
                            !.queue = Append(@, [id |-> id, index |-> index])]
    IN  IF ~pushed.isPlaying THEN playNext(pushed) ELSE pushed

\* reset that forgets to clear the playing flag.
reset_KeepPlaying(a) == [a EXCEPT !.queue = <<>>]

\* AudioQueue.reset
reset(a) == [a EXCEPT !.queue = <<>>, !.isPlaying = FALSE]

\* Writes an audio record back to the variables.
SetAudio(a) ==
    /\ queue' = a.queue
    /\ isPlaying' = a.isPlaying
    /\ playerChunk' = a.playerChunk
    /\ pendingPlay' = a.pendingPlay
    /\ urls' = a.urls
    /\ played' = a.played
    /\ volumeStatus' = a.volumeStatus

QueueIds(q) == {q[i].id : i \in 1..Len(q)}

\* 'ended' listener of the audio element: the chunk being output finished.
AudioEnded ==
    /\ playerChunk # 0
    /\ playerChunk \notin pendingPlay
    /\ SetAudio(playNext([AudioRec EXCEPT !.playerChunk = 0]))
    /\ UNCHANGED <<timeVars, wsVars, pipeVars, recVars, recordBtnDisabled,
                   vadFlags, vadSpeech, vadRes, vadLoop, vadRec, startPending,
                   nChunks, dropped, failed, vadHist>>

\* The play() promise of the chunk being output resolves: output has begun.
\* No handler is attached to the fulfilment.
PlayResolved ==
    /\ playerChunk \in pendingPlay
    /\ pendingPlay' = pendingPlay \ {playerChunk}
    /\ UNCHANGED <<timeVars, wsVars, pipeVars, recVars, recordBtnDisabled,
                   vadFlags, vadSpeech, vadRes, vadLoop, vadRec, startPending,
                   volumeStatus, queue, isPlaying, playerChunk, urls, played,
                   nChunks, dropped, failed, vadHist>>

\* A catch handler that logs the error and does not call playNext.
PlayRejected_LogOnly(c) ==
    /\ c \in pendingPlay
    /\ SetAudio([AudioRec EXCEPT
            !.pendingPlay = @ \ {c},
            !.playerChunk = IF @ = c THEN 0 ELSE @])
    /\ failed' = failed \cup {c}
    /\ UNCHANGED <<timeVars, wsVars, pipeVars, recVars, recordBtnDisabled,
                   vadFlags, vadSpeech, vadRes, vadLoop, vadRec, startPending,
                   nChunks, dropped, vadHist>>

\* The play() promise of chunk c rejects (the element refused the chunk, or
\* the chunk was replaced or paused before output began): the catch handler
\* of playNext logs and calls playNext again.
PlayRejected(c) ==
    /\ c \in pendingPlay
    /\ SetAudio(playNext([AudioRec EXCEPT
            !.pendingPlay = @ \ {c},
            !.playerChunk = IF @ = c THEN 0 ELSE @]))
    /\ failed' = failed \cup {c}
    /\ UNCHANGED <<timeVars, wsVars, pipeVars, recVars, recordBtnDisabled,
                   vadFlags, vadSpeech, vadRes, vadLoop, vadRec, startPending,
                   nChunks, dropped, vadHist>>

(***************************************************************************)
(* 7. WEBSOCKET                                                            *)
(***************************************************************************)
SocketIds == 1..Len(sockets)

\* onmessage is installed on every socket connect() creates; a message can
\* arrive on any socket that is open.
CanReceive == \E s \in SocketIds : sockets[s].readyState = "OPEN"

\* handleMessage, case 'tts_start'
TtsStart ==
    /\ CanReceive
    /\ SetAudio(reset(AudioRec))
    /\ dropped' = dropped \cup QueueIds(queue)
    /\ UNCHANGED <<timeVars, wsVars, pipeVars, recVars, recordBtnDisabled,
                   vadFlags, vadSpeech, vadRes, vadLoop, vadRec, startPending,
                   nChunks, failed, vadHist>>

\* handleMessage, case 'tts_chunk'
TtsChunk(index) ==
    /\ CanReceive
    /\ nChunks < MaxChunks
    /\ nChunks' = nChunks + 1
    /\ SetAudio(add(AudioRec, nChunks + 1, index))
    /\ UNCHANGED <<timeVars, wsVars, pipeVars, recVars, recordBtnDisabled,
                   vadFlags, vadSpeech, vadRes, vadLoop, vadRec, startPending,
                   dropped, failed, vadHist>>


(***************************************************************************)
(* 8. PIPELINE.  The operators work on a record p of the connection, the   *)
(* runs, and what a run's caller writes when the run settles.              *)
(*                                                                         *)
(* sockets[s]: readyState, and the promise connect() returned when it      *)
(* created s ("pending", "resolved", "rejected") with the socket it was    *)
(* resolved with.  runs[r]: caller ("manual": Recording.process, "vad":    *)
(* VAD.onRecordingStop), size of the blob, pc ("connect": awaiting         *)
(* connect(), "encode": awaiting blobToBase64, "sent", "failed"), sock     *)
(* (the socket whose promise it awaits), settled ("no", "true", "false",   *)
(* "rejected"), sent (an audio message went out) and caught (the caller's  *)
(* catch block ran: the error is shown in place of the response text).     *)
(***************************************************************************)
PipeRec == [websocket |-> websocket, sockets |-> sockets,
            pipelineResolve |-> pipelineResolve, runs |-> runs,
            recordBtnDisabled |-> recordBtnDisabled,
            isProcessing |-> isProcessing, volumeStatus |-> volumeStatus]

IsOpen(p) ==
    /\ p.websocket # 0
    /\ p.sockets[p.websocket].readyState = "OPEN"

\* WebSocketManager.connect when no open socket is held: new WebSocket(...)
NewSocket(p) ==
    [p EXCEPT !.sockets = Append(@, [readyState |-> "CONNECTING",
                                     promise |-> "pending", value |-> 0]),
              !.websocket = Len(p.sockets) + 1]

\* resolve or reject of run r's promise, and the continuation of its caller:
\* Recording.process (catch: recordBtn.disabled = false) or
\* VAD.onRecordingStop (status text if enabled; finally isProcessing = false).
\* Settling a settled promise does nothing.  Both callers await the promise
\* in a try block and ignore its value: their catch block runs (caught) only
\* when the promise is rejected.
Settle(p, r, outcome) ==
    IF p.runs[r].settled # "no" THEN p
    ELSE LET q == [p EXCEPT !.runs[r].settled = outcome,
                            !.runs[r].caught = (outcome = "rejected")]
         IN  IF p.runs[r].caller = "manual"
             THEN IF outcome = "rejected"
                  THEN [q EXCEPT !.recordBtnDisabled = FALSE]
                  ELSE q
             ELSE [q EXCEPT !.isProcessing = FALSE,
                            !.volumeStatus = IF isEnabled THEN "Listening..."
                                             ELSE @]

\* Pipeline.run after connect() resolved: the handle is stored and the blob
\* is handed to the FileReader.
AfterConnect(p, r) ==
    [p EXCEPT !.pipelineResolve = r, !.runs[r].pc = "encode"]

\* Pipeline.run(audioBlob), up to its first wait.
PipelineRun(p, caller, size) ==
    LET r == Len(p.runs) + 1
        new == [caller |-> caller, size |-> size, pc |-> "connect",
                sock |-> 0, settled |-> "no", sent |-> FALSE,
                caught |-> FALSE]
    IN  IF IsOpen(p)
        THEN AfterConnect([p EXCEPT !.runs = Append(@, new)], r)
        ELSE LET q == NewSocket(p)
             IN  [q EXCEPT !.runs = Append(@, [new EXCEPT !.sock = q.websocket])]

\* A run can be added within the bounds.
CanRun ==
    /\ Len(runs) < MaxRuns
    /\ IsOpen(PipeRec) \/ Len(sockets) < MaxSockets

SetPipe(p) ==
    /\ websocket' = p.websocket
    /\ sockets' = p.sockets
    /\ pipelineResolve' = p.pipelineResolve
    /\ runs' = p.runs
    /\ recordBtnDisabled' = p.recordBtnDisabled
    /\ isProcessing' = p.isProcessing
    /\ volumeStatus' = p.volumeStatus

RunIds == 1..Len(runs)

\* The runs awaiting the promise of socket s.
Waiting(p, s) == {r \in 1..Len(p.runs) : p.runs[r].pc = "connect" /\ p.runs[r].sock = s}

\* The run awaiting a rejected connect(): catch, reject(error).
ConnectFailed(p, r) == Settle([p EXCEPT !.runs[r].pc = "failed"], r, "rejected")

RECURSIVE ForEachRun(_, _, _)
\* Runs the continuation of every run of the set rs, lowest id first: the
\* rest of the try block when connect() resolved, the catch when it rejected.
ForEachRun(resolved, p, rs) ==
    IF rs = {} THEN p
    ELSE LET r == CHOOSE x \in rs : \A y \in rs : x <= y
             q == IF resolved THEN AfterConnect(p, r) ELSE ConnectFailed(p, r)
         IN  ForEachRun(resolved, q, rs \ {r})

\* onopen of socket s: resolve(state.websocket), then the run awaiting it
\* goes on.
SocketOpen(s) ==
    /\ s \in SocketIds
    /\ sockets[s].readyState = "CONNECTING"
    /\ LET p == [PipeRec EXCEPT !.sockets[s].readyState = "OPEN",
                                !.sockets[s].promise = "resolved",
                                !.sockets[s].value = websocket]
       IN  SetPipe(ForEachRun(TRUE, p, Waiting(p, s)))
    /\ UNCHANGED <<timeVars, recVars, isEnabled, vadSpeech, vadRes, vadLoop,
                   vadRec, startPending, audioVars, audioHist, vadHist>>

\* Socket s fails: the platform fires error, then close, in one task.
\* onerror rejects the promise of s (no effect once it is settled), onclose
\* clears state.websocket.
SocketFail(s) ==
    /\ s \in SocketIds
    /\ sockets[s].readyState \in {"CONNECTING", "OPEN"}
    /\ LET pending == sockets[s].promise = "pending"
           p == [PipeRec EXCEPT !.sockets[s].readyState = "CLOSED",
                                !.sockets[s].promise =
                                    IF pending THEN "rejected" ELSE @]
           q == IF pending THEN ForEachRun(FALSE, p, Waiting(p, s))
                ELSE p
       IN  SetPipe([q EXCEPT !.websocket = 0])
    /\ UNCHANGED <<timeVars, recVars, isEnabled, vadSpeech, vadRes, vadLoop,
                   vadRec, startPending, audioVars, audioHist, vadHist>>

\* Socket s closes cleanly: onclose clears state.websocket.
SocketClose(s) ==
    /\ s \in SocketIds
    /\ sockets[s].readyState = "OPEN"
    /\ sockets' = [sockets EXCEPT ![s].readyState = "CLOSED"]
    /\ websocket' = 0
    /\ UNCHANGED <<timeVars, pipeVars, recVars, recordBtnDisabled, vadFlags,
                   vadSpeech, vadRes, vadLoop, vadRec, startPending,
                   volumeStatus, audioVars, audioHist, vadHist>>


\* state.websocket.send(...) at the end of Pipeline.run: throws when
\* state.websocket is null (TypeError) or still connecting
\* (InvalidStateError); the catch rejects the run.
Send(p, r) ==
    IF p.websocket = 0 \/ p.sockets[p.websocket].readyState = "CONNECTING"
    THEN Settle([p EXCEPT !.runs[r].pc = "failed"], r, "rejected")
    ELSE [p EXCEPT !.runs[r].pc = "sent",
                   !.runs[r].sent = (p.sockets[p.websocket].readyState = "OPEN")]

\* blobToBase64 resolves for run r (FileReader onloadend): the message is sent.
EncodeDone(r) ==
    /\ r \in RunIds
    /\ runs[r].pc = "encode"
    /\ SetPipe(Send(PipeRec, r))
    /\ UNCHANGED <<timeVars, recVars, isEnabled, vadSpeech, vadRes, vadLoop,
                   vadRec, startPending, audioVars, audioHist, vadHist>>

\* blobToBase64 rejects for run r (FileReader onerror): catch, reject(error).
EncodeFail(r) ==
    /\ r \in RunIds
    /\ runs[r].pc = "encode"
    /\ SetPipe(Settle([PipeRec EXCEPT !.runs[r].pc = "failed"], r, "rejected"))
    /\ UNCHANGED <<timeVars, recVars, isEnabled, vadSpeech, vadRes, vadLoop,
                   vadRec, startPending, audioVars, audioHist, vadHist>>

\* A terminal handler that calls the handle and forgets to clear it.
Terminal_KeepHandle(p, ok) ==
    LET q == [p EXCEPT !.recordBtnDisabled = IF ~isEnabled THEN FALSE ELSE @]
    IN  IF q.pipelineResolve # 0
        THEN Settle(q, q.pipelineResolve, IF ok THEN "true" ELSE "false")
        ELSE q

\* handleMessage, cases 'pipeline_done' (ok) and 'error' (~ok): the record
\* button is re-enabled outside hands-free mode, and the pending handle, if
\* any, is called with ok and cleared.
Terminal(p, ok) ==
    LET q == [p EXCEPT !.recordBtnDisabled = IF ~isEnabled THEN FALSE ELSE @]
    IN  IF q.pipelineResolve # 0
        THEN [Settle(q, q.pipelineResolve, IF ok THEN "true" ELSE "false")
                 EXCEPT !.pipelineResolve = 0]
        ELSE q

TerminalEvent(ok) ==
    /\ CanReceive
    /\ SetPipe(Terminal(PipeRec, ok))
    /\ UNCHANGED <<timeVars, recVars, isEnabled, vadSpeech, vadRes, vadLoop,
                   vadRec, startPending, audioVars, audioHist, vadHist>>

\* The eleven message kinds handleMessage has a case for, and the types a
\* message can carry: those and one that no case matches.
MessageTypes == {"stt_start", "stt_segment", "stt_done", "llm_start",
                 "llm_token", "llm_done", "tts_start", "tts_chunk",
                 "tts_done", "pipeline_done", "error"}

Types == MessageTypes \cup {"ping"}

\* What is left unchanged by a message whose case writes none of the
\* modelled state: the STT and LLM cases write the transcript and response
\* elements only, tts_done breaks at once, and the switch has no default.
Ignored ==
    /\ CanReceive
    /\ UNCHANGED <<now, wsVars, pipeVars, recVars, recordBtnDisabled,
                   vadFlags, vadSpeech, vadRes, vadLoop, vadRec, startPending,
                   volumeStatus, audioVars, audioHist, vadHist>>

\* A dispatcher whose switch ends in a default that treats the message as
\* an error event.
handleMessage_DefaultError(type, index) ==
    CASE type = "tts_start" -> TtsStart
      [] type = "tts_chunk" -> TtsChunk(index)
      [] type = "pipeline_done" -> TerminalEvent(TRUE)
      [] type = "error" -> TerminalEvent(FALSE)
      [] type \in MessageTypes \ {"tts_start", "tts_chunk", "pipeline_done",
                                  "error"} -> Ignored
      [] OTHER -> /\ CanReceive
                  /\ SetPipe(Terminal(PipeRec, FALSE))
                  /\ UNCHANGED <<now, recVars, isEnabled, vadSpeech, vadRes,
                                 vadLoop, vadRec, startPending, audioVars,
                                 audioHist, vadHist>>

\* WebSocketManager.handleMessage(data) with data.type = type
handleMessage(type, index) ==
    CASE type = "tts_start" -> TtsStart
      [] type = "tts_chunk" -> TtsChunk(index)
      [] type = "pipeline_done" -> TerminalEvent(TRUE)
      [] type = "error" -> TerminalEvent(FALSE)
      [] OTHER -> Ignored

\* onmessage of an open socket: the parsed message is dispatched.
OnMessage(type, index) ==
    /\ type \notin MessageTypes => nUnknown < MaxUnknown
    /\ handleMessage(type, index)
    /\ nUnknown' = IF type \in MessageTypes THEN nUnknown ELSE nUnknown + 1

(***************************************************************************)
(* 9. RECORDING (manual mode)                                              *)
(***************************************************************************)
\* Recording.start once a recorder exists: mediaRecorder.start() throws on a
\* recorder that is recording, and the rest of start() is skipped.
StartManual(mr) ==
    IF mr = "recording"
    THEN /\ recMediaRecorder' = mr
         /\ isActive' = isActive
    ELSE /\ recMediaRecorder' = "recording"
         /\ isActive' = TRUE

\* Click on the record button: Recording.toggle.  A disabled button
\* receives no click.
RecordClick ==
    /\ ~recordBtnDisabled
    /\ IF isActive
       THEN \* Recording.stop; mediaRecorder.stop() throws on a recorder
            \* that is not recording, and the rest of stop() is skipped
            IF recMediaRecorder = "recording"
            THEN /\ recStopPending < MaxPending
                 /\ recMediaRecorder' = "inactive"
                 /\ recStopPending' = recStopPending + 1
                 /\ isActive' = FALSE
                 /\ recordBtnDisabled' = TRUE
                 /\ UNCHANGED recInitPending
            ELSE UNCHANGED <<recMediaRecorder, isActive, recInitPending,
                             recStopPending, recordBtnDisabled>>
       ELSE \* Recording.start
            IF recMediaRecorder = "null"
            THEN /\ recInitPending < MaxPending
                 /\ recInitPending' = recInitPending + 1
                 /\ UNCHANGED <<recMediaRecorder, isActive, recStopPending,
                                recordBtnDisabled>>
            ELSE /\ StartManual(recMediaRecorder)
                 /\ UNCHANGED <<recInitPending, recStopPending,
                                recordBtnDisabled>>
    /\ UNCHANGED <<timeVars, wsVars, pipeVars, vadFlags, vadSpeech, vadRes,
                   vadLoop, vadRec, startPending, volumeStatus, audioVars,
                   audioHist, vadHist>>

\* getUserMedia resolves inside Recording.init: a new recorder replaces the
\* held one and Recording.start goes on.
RecInitOk ==
    /\ recInitPending > 0
    /\ recInitPending' = recInitPending - 1
    /\ StartManual("inactive")
    /\ UNCHANGED <<timeVars, wsVars, pipeVars, recStopPending,
                   recordBtnDisabled, vadFlags, vadSpeech, vadRes, vadLoop,
                   vadRec, startPending, volumeStatus, audioVars, audioHist,
                   vadHist>>

\* getUserMedia rejects inside Recording.init: init returns false, start returns.
RecInitFail ==
    /\ recInitPending > 0
    /\ recInitPending' = recInitPending - 1
    /\ UNCHANGED <<timeVars, wsVars, pipeVars, recMediaRecorder, isActive,
                   recStopPending, recordBtnDisabled, vadFlags, vadSpeech,
                   vadRes, vadLoop, vadRec, startPending, volumeStatus,
                   audioVars, audioHist, vadHist>>

\* Recording.process(audioBlob)
process(p, size) == PipelineRun(p, "manual", size)

\* The manual recorder delivers dataavailable and stop after stop(): the
\* blob of `size` bytes is built and passed to Recording.process.
RecRecorderStopped(size) ==
    /\ recStopPending > 0
    /\ CanRun
    /\ recStopPending' = recStopPending - 1
    /\ SetPipe(process(PipeRec, size))
    /\ UNCHANGED <<timeVars, recMediaRecorder, isActive, recInitPending,
                   isEnabled, vadSpeech, vadRes, vadLoop, vadRec, startPending,
                   audioVars, audioHist, vadHist>>


(***************************************************************************)
(* 6. VAD.  The operators work on a record v of the speech state, the      *)
(* hands-free recorder, the sampling loop and the status text.             *)
(***************************************************************************)
VadRec == [isSpeaking |-> isSpeaking, silenceStart |-> silenceStart,
           speechStart |-> speechStart,
           vadMediaRecorder |-> vadMediaRecorder,
           vadStopPending |-> vadStopPending,
           stream |-> stream, audioContext |-> audioContext,
           analyser |-> analyser,
           animationFrame |-> animationFrame, rafPending |-> rafPending,
           rafLatest |-> rafLatest, volumeStatus |-> volumeStatus]

SetVad(v) ==
    /\ isSpeaking' = v.isSpeaking
    /\ silenceStart' = v.silenceStart
    /\ speechStart' = v.speechStart
    /\ vadMediaRecorder' = v.vadMediaRecorder
    /\ vadStopPending' = v.vadStopPending
    /\ stream' = v.stream
    /\ audioContext' = v.audioContext
    /\ analyser' = v.analyser
    /\ animationFrame' = v.animationFrame
    /\ rafPending' = v.rafPending
    /\ rafLatest' = v.rafLatest
    /\ volumeStatus' = v.volumeStatus

\* state.vad.mediaRecorder.stop(): the recorder is inactive at once and its
\* dataavailable and stop events are queued.
StopRecorder(v) ==
    [v EXCEPT !.vadMediaRecorder = "inactive", !.vadStopPending = @ + 1]

\* VAD.onSpeechDetected(now)
onSpeechDetected(v, t) ==
    LET w == IF ~v.isSpeaking
             THEN [v EXCEPT !.isSpeaking = TRUE,
                            !.speechStart = t,
                            !.silenceStart = 0,
                            !.vadMediaRecorder =
                                IF @ = "inactive" THEN "recording" ELSE @]
             ELSE v
    IN  [w EXCEPT !.volumeStatus = "Speaking...", !.silenceStart = 0]

\* onSilenceDetected whose timeout branch leaves silenceStart set.
onSilenceDetected_KeepStamp(v, t) ==
    IF v.isSpeaking
    THEN LET start == IF v.silenceStart = 0 THEN t ELSE v.silenceStart
             silenceDuration == t - start
             w == [v EXCEPT !.silenceStart = start,
                            !.volumeStatus = "Silence..."]
         IN  IF silenceDuration >= silenceTimeout
             THEN LET x == IF w.vadMediaRecorder = "recording"
                           THEN StopRecorder(w) ELSE w
                  IN  [x EXCEPT !.isSpeaking = FALSE,
                                !.speechStart = 0]
             ELSE w
    ELSE [v EXCEPT !.volumeStatus = "Listening..."]

\* VAD.onSilenceDetected(now)
onSilenceDetected(v, t) ==
    IF v.isSpeaking
    THEN LET start == IF v.silenceStart = 0 THEN t ELSE v.silenceStart
             silenceDuration == t - start
             w == [v EXCEPT !.silenceStart = start,
                            !.volumeStatus = "Silence..."]
         IN  IF silenceDuration >= silenceTimeout
             THEN LET x == IF w.vadMediaRecorder = "recording"
                           THEN StopRecorder(w) ELSE w
                  IN  [x EXCEPT !.isSpeaking = FALSE,
                                !.silenceStart = 0,
                                !.speechStart = 0]
             ELSE w
    ELSE [v EXCEPT !.volumeStatus = "Listening..."]

\* requestAnimationFrame(() => this.monitorVolume())
Schedule(v) ==
    [v EXCEPT !.animationFrame = TRUE, !.rafPending = @ + 1, !.rafLatest = TRUE]

\* The sample is skipped: a pipeline is processing or audio is playing.
Suspended == isProcessing \/ isPlaying

\* VAD.monitorVolume with volumePercent = vol at time t
monitorVolume(v, vol, t) ==
    IF ~v.analyser \/ ~isEnabled THEN v
    ELSE IF Suspended
    THEN Schedule([v EXCEPT !.volumeStatus = IF isPlaying THEN "AI Speaking..."
                                             ELSE "Processing..."])
    ELSE IF vol > volumeThreshold
    THEN Schedule(onSpeechDetected(v, t))
    ELSE Schedule(onSilenceDetected(v, t))

\* VAD.stop
stop(v) ==
    LET a == IF v.animationFrame
             THEN [v EXCEPT !.animationFrame = FALSE,
                            !.rafPending = IF v.rafLatest THEN @ - 1 ELSE @,
                            !.rafLatest = FALSE]
             ELSE v
        b == IF a.vadMediaRecorder = "recording" THEN StopRecorder(a) ELSE a
    IN  [b EXCEPT !.isSpeaking = FALSE, !.silenceStart = 0, !.speechStart = 0,
                  !.audioContext = FALSE, !.analyser = FALSE, !.stream = FALSE]

\* The history of the sample run at time t with volume vol: the time of the
\* first sample of the current run of loud samples, and whether a run of
\* quiet samples is under way.  A skipped sample ends a loud run and leaves
\* a quiet run as it is (Tick does not count the time it is suspended for).
SampleHistory(v, vol, t) ==
    IF ~v.analyser \/ ~isEnabled
    THEN UNCHANGED vadHist
    ELSE IF Suspended
    THEN /\ loudSince' = 0
         /\ UNCHANGED <<quietRun, quietMs>>
    ELSE IF vol > volumeThreshold
    THEN /\ loudSince' = IF loudSince = 0 THEN t ELSE loudSince
         /\ quietRun' = FALSE
         /\ quietMs' = 0
    ELSE /\ loudSince' = 0
         /\ quietRun' = TRUE
         /\ quietMs' = IF quietRun THEN quietMs ELSE 0

\* Change of the hands-free checkbox: enabling calls VAD.start, which waits
\* for getUserMedia; disabling calls VAD.stop.
HandsFreeToggle ==
    /\ isEnabled' = ~isEnabled
    /\ IF ~isEnabled
       THEN /\ startPending < MaxStarts
            /\ startPending' = startPending + 1
            /\ UNCHANGED <<vadSpeech, vadRes, vadLoop, vadRec, volumeStatus,
                           recordBtnDisabled, vadHist>>
       ELSE /\ stop(VadRec).vadStopPending <= MaxPending
            /\ SetVad(stop(VadRec))
            /\ recordBtnDisabled' = FALSE
            /\ loudSince' = 0
            /\ quietRun' = FALSE
            /\ quietMs' = 0
            /\ UNCHANGED startPending
    /\ UNCHANGED <<timeVars, wsVars, pipeVars, recVars, isProcessing,
                   audioVars, audioHist>>

\* VAD.start after getUserMedia resolved: stream, context, analyser and a new
\* recorder are stored, the first sample (volumePercent = vol) is taken, and
\* the record button is disabled.
start(v, vol, t) ==
    monitorVolume([v EXCEPT !.stream = TRUE, !.audioContext = TRUE,
                            !.analyser = TRUE,
                            !.vadMediaRecorder = "inactive"], vol, t)

GetUserMediaOk(vol) ==
    /\ startPending > 0
    /\ startPending' = startPending - 1
    /\ LET v == start(VadRec, vol, now)
       IN  /\ v.rafPending <= MaxLoops
           /\ v.vadStopPending <= MaxPending
           /\ SetVad(v)
           /\ SampleHistory([VadRec EXCEPT !.analyser = TRUE], vol, now)
    /\ recordBtnDisabled' = TRUE
    /\ UNCHANGED <<timeVars, wsVars, pipeVars, recVars, vadFlags, audioVars,
                   audioHist>>

\* VAD.start after getUserMedia rejected: the catch unchecks the toggle and
\* clears isEnabled.
GetUserMediaFail ==
    /\ startPending > 0
    /\ startPending' = startPending - 1
    /\ isEnabled' = FALSE
    /\ UNCHANGED <<timeVars, wsVars, pipeVars, recVars, recordBtnDisabled,
                   isProcessing, vadSpeech, vadRes, vadLoop, vadRec,
                   volumeStatus, audioVars, audioHist, vadHist>>

\* The steps of VAD.start after the microphone request at which a constructor
\* can throw: new AudioContext, createMediaStreamSource, new MediaRecorder.
StartSteps == {"context", "source", "recorder"}

\* What VAD.start has stored when the step throws.
startFailed(v, step) ==
    CASE step = "context"  -> [v EXCEPT !.stream = TRUE]
      [] step = "source"   -> [v EXCEPT !.stream = TRUE, !.audioContext = TRUE,
                                        !.analyser = TRUE]
      [] step = "recorder" -> [v EXCEPT !.stream = TRUE, !.audioContext = TRUE,
                                        !.analyser = TRUE]

\* VAD.start after getUserMedia resolved and a later step threw: the catch
\* unchecks the toggle and clears isEnabled.
StartFail(step) ==
    /\ startPending > 0
    /\ startPending' = startPending - 1
    /\ SetVad(startFailed(VadRec, step))
    /\ isEnabled' = FALSE
    /\ UNCHANGED <<timeVars, wsVars, pipeVars, recVars, recordBtnDisabled,
                   isProcessing, audioVars, audioHist, vadHist>>

\* A scheduled animation-frame callback runs monitorVolume.  `latest` says
\* whether it is the callback state.vad.animationFrame names.
MonitorVolume(vol, latest) ==
    /\ rafPending > 0
    /\ latest => rafLatest
    /\ ~latest => rafPending > (IF rafLatest THEN 1 ELSE 0)
    /\ LET v0 == [VadRec EXCEPT !.rafPending = @ - 1,
                                !.rafLatest = IF latest THEN FALSE ELSE @]
           v == monitorVolume(v0, vol, now)
       IN  /\ v.vadStopPending <= MaxPending
           /\ SetVad(v)
           /\ SampleHistory(VadRec, vol, now)
    /\ UNCHANGED <<timeVars, wsVars, pipeVars, recVars, recordBtnDisabled,
                   vadFlags, startPending, audioVars, audioHist>>

\* VAD.onRecordingStop with the captured chunks adding up to `size` bytes
\* (no chunk is kept when size is 0).
onRecordingStop(p, size) ==
    IF size = 0 \/ p.isProcessing THEN p
    ELSE LET q == [p EXCEPT !.isProcessing = TRUE,
                            !.volumeStatus = "Processing..."]
         IN  IF size < minAudioSize
             THEN [q EXCEPT !.isProcessing = FALSE]
             ELSE PipelineRun(q, "vad", size)

\* The hands-free recorder delivers dataavailable and stop after stop().
VadRecorderStopped(size) ==
    /\ vadStopPending > 0
    /\ (size >= minAudioSize /\ ~isProcessing) => CanRun
    /\ vadStopPending' = vadStopPending - 1
    /\ SetPipe(onRecordingStop(PipeRec, size))
    /\ UNCHANGED <<timeVars, recVars, isEnabled, vadSpeech, vadRes, vadLoop,
                   vadMediaRecorder, startPending, audioVars, audioHist,
                   vadHist>>

(***************************************************************************)
(* 10. CLEAR & RESET                                                       *)
(***************************************************************************)
\* clearAll: AudioQueue.reset, audioPlayer.pause() and src = '', and
\* VAD.reset in hands-free mode.
ClearAll ==
    /\ SetAudio([reset(AudioRec) EXCEPT
            !.playerChunk = 0,
            !.volumeStatus = IF isEnabled THEN "Listening..." ELSE @])
    /\ dropped' = dropped \cup QueueIds(queue)
    /\ IF isEnabled
       THEN /\ isSpeaking' = FALSE
            /\ silenceStart' = 0
            /\ speechStart' = 0
            /\ isProcessing' = FALSE
            /\ loudSince' = 0
            /\ quietRun' = FALSE
            /\ quietMs' = 0
       ELSE UNCHANGED <<vadSpeech, isProcessing, vadHist>>
    /\ UNCHANGED <<timeVars, wsVars, pipeVars, recVars, recordBtnDisabled,
                   isEnabled, vadRes, vadLoop, vadRec, startPending, nChunks,
                   failed>>

\* Time passes.  A quiet run grows by it unless sampling is suspended.
Tick ==
    /\ now < MaxTicks * TickMs
    /\ now' = now + TickMs
    /\ quietMs' = IF quietRun /\ ~Suspended THEN quietMs + TickMs ELSE quietMs
    /\ UNCHANGED <<wsVars, pipeVars, recVars, recordBtnDisabled, vadFlags,
                   vadSpeech, vadRes, vadLoop, vadRec, startPending,
                   volumeStatus, audioVars, audioHist, loudSince, quietRun,
                   nUnknown>>

(***************************************************************************)
(* 12. INITIALIZATION: the module-level state, after init() has called     *)
(* WebSocketManager.connect() once.                                        *)
(***************************************************************************)
Init ==
    /\ now = TickMs
    /\ websocket = 1
    /\ sockets = <<[readyState |-> "CONNECTING", promise |-> "pending",
                    value |-> 0]>>
    /\ pipelineResolve = 0
    /\ runs = <<>>
    /\ recMediaRecorder = "null"
    /\ isActive = FALSE
    /\ recInitPending = 0
    /\ recStopPending = 0
    /\ recordBtnDisabled = FALSE
    /\ isEnabled = FALSE
    /\ isProcessing = FALSE
    /\ isSpeaking = FALSE
    /\ silenceStart = 0
    /\ speechStart = 0
    /\ stream = FALSE
    /\ audioContext = FALSE
    /\ analyser = FALSE
    /\ vadMediaRecorder = "null"
    /\ animationFrame = FALSE
    /\ rafPending = 0
    /\ rafLatest = FALSE
    /\ startPending = 0
    /\ vadStopPending = 0
    /\ volumeStatus = "Listening..."
    /\ queue = <<>>
    /\ isPlaying = FALSE
    /\ playerChunk = 0
    /\ pendingPlay = {}
    /\ urls = {}
    /\ nChunks = 0
    /\ played = <<>>
    /\ dropped = {}
    /\ failed = {}
    /\ loudSince = 0
    /\ quietRun = FALSE
    /\ quietMs = 0
    /\ nUnknown = 0

Next ==
    \/ Tick
    \/ \E s \in SocketIds : SocketOpen(s)
    \/ \E s \in SocketIds : SocketFail(s)
    \/ \E s \in SocketIds : SocketClose(s)
    \/ \E r \in RunIds : EncodeDone(r)
    \/ \E r \in RunIds : EncodeFail(r)
    \/ \E ok \in BOOLEAN : TerminalEvent(ok)
    \/ TtsStart
    \/ \E index \in Indexes : TtsChunk(index)
    \/ AudioEnded
    \/ PlayResolved
    \/ \E c \in pendingPlay : PlayRejected(c)
    \/ RecordClick
    \/ RecInitOk
    \/ RecInitFail
    \/ \E size \in BlobSizes : RecRecorderStopped(size)
    \/ HandsFreeToggle
    \/ \E vol \in Volumes : GetUserMediaOk(vol)
    \/ GetUserMediaFail
    \/ \E step \in StartSteps : StartFail(step)
    \/ \E vol \in Volumes, latest \in BOOLEAN : MonitorVolume(vol, latest)
    \/ \E size \in BlobSizes : VadRecorderStopped(size)
    \/ ClearAll
    \/ \E type \in Types, index \in Indexes : OnMessage(type, index)

Spec == Init /\ [][Next]_vars


(***************************************************************************)
(* Specifications of the parts.  The state space of Spec is too large to   *)
(* explore, so each group of properties is checked under the actions that  *)
(* read or write the state it is about.                                    *)
(***************************************************************************)
\* The playback queue: the inbound TTS events, the audio element, clearAll,
\* and the hands-free switch that playNext reads.
NextQueue ==
    \/ \E s \in SocketIds : SocketOpen(s)
    \/ \E s \in SocketIds : SocketClose(s)
    \/ TtsStart
    \/ \E index \in Indexes : TtsChunk(index)
    \/ AudioEnded
    \/ PlayResolved
    \/ \E c \in pendingPlay : PlayRejected(c)
    \/ HandsFreeToggle
    \/ \E vol \in Volumes : GetUserMediaOk(vol)
    \/ ClearAll

SpecQueue == Init /\ [][NextQueue]_vars

\* The connection and the pipeline runs of manual recordings.
NextPipe ==
    \/ \E s \in SocketIds : SocketOpen(s)
    \/ \E s \in SocketIds : SocketFail(s)
    \/ \E s \in SocketIds : SocketClose(s)
    \/ \E r \in RunIds : EncodeDone(r)
    \/ \E r \in RunIds : EncodeFail(r)
    \/ \E ok \in BOOLEAN : TerminalEvent(ok)
    \/ RecordClick
    \/ RecInitOk
    \/ RecInitFail
    \/ \E size \in BlobSizes : RecRecorderStopped(size)

SpecPipe == Init /\ [][NextPipe]_vars

\* The sampling loop and the hands-free recorder over time.
NextSampling ==
    \/ Tick
    \/ HandsFreeToggle
    \/ \E vol \in Volumes : GetUserMediaOk(vol)
    \/ \E vol \in Volumes, latest \in BOOLEAN : MonitorVolume(vol, latest)
    \/ ClearAll

\* Hands-free operation with the pipeline runs of its captures.
NextHands ==
    \/ NextSampling
    \/ \E s \in SocketIds : SocketOpen(s)
    \/ \E r \in RunIds : EncodeDone(r)
    \/ \E ok \in BOOLEAN : TerminalEvent(ok)
    \/ \E size \in BlobSizes : VadRecorderStopped(size)

SpecHands == Init /\ [][NextHands]_vars

\* Hands-free operation with the playback that suspends sampling.
NextVad ==
    \/ NextSampling
    \/ \E s \in SocketIds : SocketOpen(s)
    \/ \E index \in Indexes : TtsChunk(index)
    \/ AudioEnded
    \/ PlayResolved

SpecVad == Init /\ [][NextVad]_vars

\* Hands-free sampling beside the pipeline runs of manual recordings.
NextBusy ==
    \/ \E s \in SocketIds : SocketOpen(s)
    \/ \E ok \in BOOLEAN : TerminalEvent(ok)
    \/ RecordClick
    \/ RecInitOk
    \/ \E size \in BlobSizes : RecRecorderStopped(size)
    \/ HandsFreeToggle
    \/ \E vol \in Volumes : GetUserMediaOk(vol)
    \/ \E vol \in Volumes, latest \in BOOLEAN : MonitorVolume(vol, latest)

SpecBusy == Init /\ [][NextBusy]_vars

\* The pipeline runs of hands-free captures with the failures of the
\* microphone, the connection and the encoding.
NextFail ==
    \/ \E s \in SocketIds : SocketOpen(s)
    \/ \E s \in SocketIds : SocketFail(s)
    \/ \E s \in SocketIds : SocketClose(s)
    \/ \E r \in RunIds : EncodeDone(r)
    \/ \E r \in RunIds : EncodeFail(r)
    \/ \E ok \in BOOLEAN : TerminalEvent(ok)
    \/ HandsFreeToggle
    \/ \E vol \in Volumes : GetUserMediaOk(vol)
    \/ GetUserMediaFail
    \/ \E size \in BlobSizes : VadRecorderStopped(size)

SpecFail == Init /\ [][NextFail]_vars

\* The message dispatcher with a hands-free request pending, audio playing
\* and hands-free mode switched on and off.  Only a tts_chunk message has
\* an index that is read.
NextMsg ==
    \/ \E s \in SocketIds : SocketOpen(s)
    \/ \E type \in Types :
          \E index \in IF type = "tts_chunk" THEN Indexes ELSE {0} :
              OnMessage(type, index)
    \/ HandsFreeToggle
    \/ \E vol \in Volumes : GetUserMediaOk(vol)
    \/ VadRecorderStopped(minAudioSize)

SpecMsg == Init /\ [][NextMsg]_vars

\* Enabling and disabling hands-free mode with every outcome of VAD.start.
NextStart ==
    \/ Tick
    \/ HandsFreeToggle
    \/ \E vol \in Volumes : GetUserMediaOk(vol)
    \/ GetUserMediaFail
    \/ \E step \in StartSteps : StartFail(step)
    \/ \E vol \in Volumes, latest \in BOOLEAN : MonitorVolume(vol, latest)
    \/ \E size \in BlobSizes : VadRecorderStopped(size)

SpecStart == Init /\ [][NextStart]_vars

(***************************************************************************)
(* Playback queue properties (SpecQueue).                                  *)
(***************************************************************************)
\* Number of times chunk c was handed to play().
Attempts(c) == Cardinality({i \in 1..Len(played) : played[i] = c})

\* Nothing is being output and no play() promise is outstanding.
PlayerIdle == playerChunk = 0 /\ pendingPlay = {}

\* C4: every enqueued chunk is, at any time, exactly one of: waiting in the
\* queue, discarded by a reset, or attempted exactly once; so N chunks
\* enqueued with no reset get exactly N attempts, none skipped or repeated.
\* Once the player has finished everything it was given, the queue is empty
\* and isPlaying is false.
C4_OneAttemptPerChunk ==
    /\ \A c \in 1..nChunks :
          Attempts(c) + (IF c \in QueueIds(queue) THEN 1 ELSE 0)
                      + (IF c \in dropped THEN 1 ELSE 0) = 1
    /\ PlayerIdle => (Len(queue) = 0 /\ ~isPlaying)

\* Three chunks were enqueued with no reset, one of them while another was
\* playing, all three were attempted and the player has finished.
C4_Witness ==
    /\ nChunks = 3
    /\ dropped = {}
    /\ played = <<1, 2, 3>>
    /\ PlayerIdle
    /\ ~isPlaying

\* A step of playNext made by the 'ended' listener or by the catch handler.
Advance == AudioEnded \/ \E c \in pendingPlay : PlayRejected(c)

\* C5: chunks begin playback in enqueue order whatever their index fields
\* (ids are enqueue ordinals, so the attempts are increasing); and when
\* playNext finds the queue empty the playing flag goes off and, in
\* hands-free mode with no pipeline processing, the status returns to
\* listening and sampling is no longer suspended.
C5_EnqueueOrder ==
    /\ [](\A i, j \in 1..Len(played) : i < j => played[i] < played[j])
    /\ [][(Advance /\ Len(queue) = 0) =>
            /\ ~isPlaying'
            /\ (isEnabled /\ ~isProcessing) =>
                  (volumeStatus' = "Listening..." /\ ~Suspended')]_vars

\* tts_start, two chunks, both played in order, playback over, hands-free on.
C5_Witness ==
    /\ nChunks = 2
    /\ played = <<1, 2>>
    /\ dropped = {}
    /\ PlayerIdle
    /\ ~isPlaying
    /\ isEnabled
    /\ analyser
    /\ volumeStatus = "Listening..."

\* A step that calls AudioQueue.reset.
ResetStep == TtsStart \/ ClearAll

\* A late event of the audio element.
LateEvent == Advance \/ PlayResolved

\* C6: reset() leaves the queue empty and isPlaying false at once; a late
\* 'ended' or play() rejection (or fulfilment) that follows leaves isPlaying
\* false and plays nothing; and no chunk a reset discarded is ever played.
C6_ResetHalts ==
    /\ [][ResetStep => (Len(queue') = 0 /\ ~isPlaying')]_vars
    /\ [][(LateEvent /\ Len(queue) = 0 /\ ~isPlaying) =>
            (~isPlaying' /\ played' = played /\ Len(queue') = 0)]_vars
    /\ [](dropped \cap Range(played) = {})

\* A reset came while a chunk was playing and another was queued; the chunk
\* is still being output.
C6_Witness ==
    /\ dropped # {}
    /\ playerChunk # 0
    /\ Len(queue) = 0
    /\ ~isPlaying

\* C7: isPlaying is true iff the audio element is outputting a chunk.
C7_PlayingIffOutput == isPlaying <=> (playerChunk # 0)


(***************************************************************************)
(* Pipeline and connection properties (SpecPipe, SpecHands).               *)
(***************************************************************************)
\* C1: a run called while an earlier run is still pending fails at once
\* (Busy), sends nothing and does not take over the pending handle.
C1_SingleFlight ==
    \A r1, r2 \in RunIds :
        (r1 < r2 /\ runs[r1].settled = "no") =>
            /\ runs[r2].settled = "rejected"
            /\ ~runs[r2].sent
            /\ pipelineResolve # r2

\* C2: a terminal event clears the handle and settles the run that held it,
\* if it was not settled, and nothing else; with no handle it settles
\* nothing.  A settled run is never settled again.
C2_TerminalIdempotent ==
    /\ [][\A ok \in BOOLEAN : TerminalEvent(ok) =>
            /\ pipelineResolve' = 0
            /\ Len(runs') = Len(runs)
            /\ \A r \in RunIds :
                  runs'[r] = IF r = pipelineResolve /\ runs[r].settled = "no"
                             THEN [runs[r] EXCEPT !.settled =
                                      IF ok THEN "true" ELSE "false"]
                             ELSE runs[r]]_vars
    /\ [][\A r \in RunIds : runs[r].settled # "no" =>
            runs'[r].settled = runs[r].settled]_vars

\* A terminal event has settled a run and cleared the handle, and a socket
\* is open to deliver the next one.
C2_Witness ==
    /\ pipelineResolve = 0
    /\ CanReceive
    /\ \E r \in RunIds : runs[r].settled \in {"true", "false"} /\ runs[r].sent

\* C3: no second connection is created while one is being established.
C3_SingleConnection ==
    Cardinality({s \in SocketIds : sockets[s].readyState = "CONNECTING"}) <= 1

\* C8: no audio message goes out for a blob below the minimum size.
C8_NoSmallUtteranceSent ==
    \A r \in RunIds : runs[r].sent => runs[r].size >= minAudioSize


(***************************************************************************)
(* Voice activity properties (SpecHands, SpecVad).                         *)
(***************************************************************************)
\* C9: the hands-free recorder starts only when the current run of loud
\* samples has lasted the minimum speech duration.
C9_StartNeedsMinSpeech ==
    [][(vadMediaRecorder # "recording" /\ vadMediaRecorder' = "recording") =>
          (loudSince' # 0 /\ now' - loudSince' >= minSpeechDuration)]_vars

\* A sample stops the hands-free recorder (VAD.stop and VAD.start, the other
\* writers of the recorder, change isEnabled or startPending).
SilenceStop ==
    /\ vadMediaRecorder = "recording"
    /\ vadMediaRecorder' = "inactive"
    /\ isEnabled' = isEnabled
    /\ startPending' = startPending

\* C10: a sample stops the recording only when the current run of quiet
\* samples has lasted the silence timeout; time that passed while samples
\* were skipped does not count.
C10_StopNeedsSilentRun ==
    [][SilenceStop => (quietRun' /\ quietMs' >= silenceTimeout)]_vars


(***************************************************************************)
(* Suspension of sampling (SpecBusy).                                      *)
(***************************************************************************)
\* A pipeline request is running: its promise is not settled.
Running == \E r \in RunIds : runs[r].settled = "no"

\* An animation-frame callback samples the volume.
Sample == \E vol \in Volumes, latest \in BOOLEAN : MonitorVolume(vol, latest)

\* C11: while a pipeline request is running or audio is playing, a sampling
\* tick of the started hands-free loop schedules the next tick and leaves
\* isSpeaking, speechStart and silenceStart as they are; it starts no capture.
C11_FrozenWhileBusy ==
    [][((Running \/ isPlaying) /\ isEnabled /\ analyser /\ Sample) =>
          /\ UNCHANGED vadSpeech
          /\ vadMediaRecorder' = vadMediaRecorder
          /\ animationFrame'
          /\ rafPending' = rafPending]_vars


(***************************************************************************)
(* Failure paths (SpecFail, SpecPipe).                                     *)
(***************************************************************************)
\* C12: when connecting, encoding or sending fails in a run that is not
\* settled, the run is rejected in that step, the pending handle does not
\* stay set to it, and the in-flight flag of a hands-free run is cleared.
C12_FailureClearsHandle ==
    [][\A r \in RunIds :
          (runs[r].settled = "no" /\ runs[r].pc # "failed"
                                  /\ runs'[r].pc = "failed") =>
              /\ runs'[r].settled = "rejected"
              /\ pipelineResolve' # r
              /\ runs[r].caller = "vad" => ~isProcessing']_vars


\* The platform still owes the page an event that can end a request: a
\* socket that may open, deliver a message or close, a connect() or an
\* encoding a run awaits, a recorder stop or a getUserMedia that is pending.
EventOwed ==
    \/ \E s \in SocketIds : sockets[s].readyState \in {"CONNECTING", "OPEN"}
    \/ \E r \in RunIds : runs[r].pc \in {"connect", "encode"}
    \/ recStopPending > 0
    \/ vadStopPending > 0
    \/ recInitPending > 0
    \/ startPending > 0

\* C13: once every failure has been delivered and the platform owes no
\* further event, the pending handle and isProcessing are back at their
\* idle values, and isSpeaking is false unless the sampling loop is running.
C13_IndicatorsRestored ==
    ~EventOwed =>
        /\ pipelineResolve = 0
        /\ ~isProcessing
        /\ rafPending = 0 => ~isSpeaking


\* Run r reaches its terminal outcome in this step.
Ends(r) == runs[r].settled = "no" /\ runs'[r].settled # "no"

\* C14: when a request ends while hands-free mode is off, and no other
\* request is running or about to be started by a stopped recorder, the
\* record button is enabled after the step.
C14_ButtonReenabled ==
    [][\A r \in RunIds :
          (/\ Ends(r)
           /\ ~isEnabled'
           /\ \A q \in 1..Len(runs') : runs'[q].settled # "no"
           /\ recStopPending' = 0
           /\ vadStopPending' = 0) => ~recordBtnDisabled']_vars


\* C15: a request settled by an inbound error event makes its caller take
\* the failure path; one settled by pipeline_done does not.
C15_ErrorEventIsFailure ==
    \A r \in RunIds :
        /\ runs[r].settled = "false" => runs[r].caught
        /\ runs[r].settled = "true" => ~runs[r].caught


(***************************************************************************)
(* Message dispatch (SpecMsg).                                             *)
(***************************************************************************)
\* C16: dispatching a message of no known type changes nothing: not the
\* pending handle or the runs, the playback queue, isPlaying or the audio
\* element, the VAD state, the recorders or the record button.
C16_UnknownIgnored ==
    [][nUnknown' # nUnknown =>
          UNCHANGED <<wsVars, pipeVars, recVars, recordBtnDisabled, vadFlags,
                      vadSpeech, vadRes, vadLoop, vadRec, startPending,
                      volumeStatus, audioVars, audioHist>>]_vars

\* A message of no known type was dispatched; hands-free mode is started,
\* a request is pending, a chunk is playing with another queued, and the
\* record button is disabled.
C16_Witness ==
    /\ nUnknown > 0
    /\ pipelineResolve # 0
    /\ runs[pipelineResolve].settled = "no"
    /\ isPlaying
    /\ Len(queue) > 0
    /\ isEnabled
    /\ analyser
    /\ isProcessing
    /\ recordBtnDisabled


(***************************************************************************)
(* Connection lifecycle (SpecPipe).                                        *)
(***************************************************************************)
\* Socket s closes in this step.
Closes(s) ==
    /\ sockets[s].readyState # "CLOSED"
    /\ sockets'[s].readyState = "CLOSED"

\* connect() is called in this step (by a new Pipeline.run).
Connects == Len(runs') > Len(runs)

\* C17: the close of the held connection clears the reference; a connection
\* is created only by a call of connect(), which creates one exactly when
\* no open connection is held; and an open, held connection stays held
\* until it closes itself, whatever callbacks of earlier connections run.
C17_HeldUntilClosed ==
    [][/\ \A s \in SocketIds :
            (Closes(s) /\ websocket = s) => websocket' = 0
       /\ Len(sockets') # Len(sockets) => Connects
       /\ Connects =>
            IF IsOpen(PipeRec)
            THEN sockets' = sockets /\ websocket' = websocket
            ELSE /\ Len(sockets') = Len(sockets) + 1
                 /\ websocket' = Len(sockets')
       /\ (IsOpen(PipeRec) /\ ~Closes(websocket)) =>
            websocket' = websocket]_vars


(***************************************************************************)
(* Chunk resources and overlap (SpecQueue).                                *)
(***************************************************************************)
\* C18: the object URL of a chunk is held only while the chunk is needed:
\* while it waits in the queue, is being output, or its play() is pending.
C18_UrlsReleased ==
    urls \subseteq (QueueIds(queue) \cup {playerChunk} \cup pendingPlay)


\* C19: playNext starts a chunk only when the audio element outputs none,
\* or in the very step in which the chunk it was outputting ends or fails.
C19_NoOverlap ==
    [][Len(played') > Len(played) =>
          \/ playerChunk = 0
          \/ AudioEnded
          \/ PlayRejected(playerChunk)]_vars


(***************************************************************************)
(* The sampling loop (SpecVad).                                            *)
(***************************************************************************)
\* C20: while hands-free mode is enabled and started (the analyser is set
\* and no VAD.start is still waiting for the microphone), exactly one
\* sampling callback is pending.
C20_OneCallbackPending ==
    (isEnabled /\ analyser /\ startPending = 0) => rafPending = 1

\* C21: a rejected play() does not stall the queue.  The step that handles
\* the rejection of chunk c takes the oldest queued chunk off the queue and
\* hands it to play() with the playing flag on; when nothing is queued (the
\* failing chunk was the last one) the playing flag goes off and nothing more
\* is played.
C21_FailureAdvances ==
    [][\A c \in pendingPlay : PlayRejected(c) =>
          IF Len(queue) = 0
          THEN /\ ~isPlaying'
               /\ played' = played
          ELSE /\ isPlaying'
               /\ queue' = Tail(queue)
               /\ played' = Append(played, Head(queue).id)
               /\ playerChunk' = Head(queue).id]_vars

\* The play() of the first chunk was rejected with a second chunk queued,
\* the second chunk was played in its turn and rejected as the last one, and
\* the playing flag is off.
C21_Witness ==
    /\ failed = {1, 2}
    /\ played = <<1, 2>>
    /\ dropped = {}
    /\ Len(queue) = 0
    /\ PlayerIdle
    /\ ~isPlaying

\* C22: the manual recorder and the hands-free recorder never run
\* concurrently: in no reachable state are state.recording.mediaRecorder and
\* state.vad.mediaRecorder both recording.
C22_RecordersExclusive ==
    ~(recMediaRecorder = "recording" /\ vadMediaRecorder = "recording")

\* No microphone stream, audio context or analyser is held and no sampling
\* callback is scheduled.
Released == ~stream /\ ~audioContext /\ ~analyser /\ rafPending = 0

\* C23: disabling hands-free mode releases the capture and analysis
\* resources synchronously and for good: nothing is held when the disable
\* handler returns, and nothing is acquired for as long as hands-free mode
\* stays disabled, whatever is in flight, a VAD.start still waiting for the
\* microphone included.
C23_DisableReleases ==
    [][/\ (isEnabled /\ HandsFreeToggle) => Released'
       /\ (~isEnabled /\ Released /\ ~isEnabled') => Released']_vars

\* A step in which VAD.start fails, at the microphone request or later.
StartFails == GetUserMediaFail \/ \E step \in StartSteps : StartFail(step)

\* C24: acquisition is all-or-nothing.  When VAD.start fails at any step,
\* hands-free mode ends up disabled and no stream, audio context, analyser
\* or recorder remains allocated.
C24_AllOrNothing ==
    [][StartFails => /\ ~isEnabled'
                     /\ ~stream'
                     /\ ~audioContext'
                     /\ ~analyser'
                     /\ vadMediaRecorder' = "null"]_vars

\* C25: in every reachable state silenceStart is non-null only if isSpeaking
\* is true.
C25_SilenceOnlyWhileSpeaking == silenceStart # 0 => isSpeaking

\* A silence is being timed within an utterance: the recorder is recording,
\* the silence began at an earlier sample and has not yet timed out.
C25_Witness ==
    /\ isSpeaking
    /\ silenceStart # 0
    /\ silenceStart < now
    /\ now - silenceStart < silenceTimeout
    /\ vadMediaRecorder = "recording"

\* C26: while hands-free mode is disabled no hands-free capture is forwarded
\* to the pipeline: no step taken with isEnabled false, the stop callback of
\* a recorder that VAD.stop stopped included, calls Pipeline.run from
\* VAD.onRecordingStop.
C26_NoRunWhileDisabled ==
    [][(~isEnabled /\ Len(runs') > Len(runs)) =>
           runs'[Len(runs')].caller # "vad"]_vars

=============================================================================
